---- MODULE Spec2Model ----
(***************************************************************************)
(* gogive: vanity import path server.  Model of the route table loader     *)
(* (NewRouter), the longest-prefix resolver (Router.findPath), the request *)
(* handler (Server.ServeHTTP) and the maintenance loop that publishes the  *)
(* table over the unbuffered channel Server.Routes (Server.loadConfig, and *)
(* the earlier Server.Run).                                                *)
(*                                                                         *)
(* Strings are sequences of one-character strings, so that splitting,      *)
(* joining and field separation are computed rather than assumed.          *)
(***************************************************************************)
EXTENDS Integers, Sequences, FiniteSets, TLC

VARIABLES
  file,     \* the configuration file on disk
  heap,     \* the Router maps allocated so far, by reference (1..Len(heap))
  mpc,      \* position of the goroutine running main / loadConfig (or Run)
  r,        \* loadConfig's local r: reference of the table being published
  nr,       \* NewRouter's local r: reference of the table under construction
  n,        \* NewRouter's local n: lines scanned so far
  rest,     \* lines the scanner has not delivered yet
  opened,   \* the file as it was when NewRouter opened it
  from,     \* the file as it was opened by the call that produced r
  hpc,      \* position of each ServeHTTP invocation
  req,      \* the request each invocation serves
  routes,   \* ServeHTTP's local routes: the reference received from s.Routes
  got,      \* the entries routes had when it was received
  resp,     \* the response written
  logged,   \* the error most recently passed to log.Print / log.Fatal
  fresh,    \* a SIGHUP was sent and the file has not changed since
  reloads,  \* NewRouter calls started by a signal
  arg,      \* argument of the last direct call of findPath or NewRouter
  ret       \* its result

vars == <<file, heap, mpc, r, nr, n, rest, opened, from, hpc, req, routes, got,
          resp, logged, fresh, reloads, arg, ret>>

sysVars == <<file, heap, mpc, r, nr, n, rest, opened, from, hpc, req, routes, got,
             resp, logged, fresh, reloads>>

pureVars == <<arg, ret>>

----------------------------------------------------------------------------
(* strings *)

\* A string is a sequence of runes, as Go reads well-formed UTF-8 text.  An
\* ASCII rune is written as the one-character string; any other rune is
\* written by its code point, "U+" followed by hexadecimal digits
\* ("U+00A0", "U+2003", "U+1F600").

\* the value of one hexadecimal digit
HexDigit(d) ==
  CASE d = "0" -> 0  [] d = "1" -> 1  [] d = "2" -> 2  [] d = "3" -> 3
    [] d = "4" -> 4  [] d = "5" -> 5  [] d = "6" -> 6  [] d = "7" -> 7
    [] d = "8" -> 8  [] d = "9" -> 9  [] d = "A" -> 10 [] d = "B" -> 11
    [] d = "C" -> 12 [] d = "D" -> 13 [] d = "E" -> 14 [] d = "F" -> 15

RECURSIVE HexValue(_)
\* the number a string of hexadecimal digits denotes
HexValue(h) ==
  IF Len(h) = 0 THEN 0
  ELSE 16 * HexValue(SubSeq(h, 1, Len(h) - 1))
         + HexDigit(SubSeq(h, Len(h), Len(h)))

\* the rune is not an ASCII character
Named(c) == Len(c) > 1

\* the code point of a rune that is not an ASCII character
CodePoint(c) == HexValue(SubSeq(c, 3, Len(c)))

\* unicode.MaxLatin1
MaxLatin1 == 255

\* unicode.White_Space above U+00FF: U+1680, U+2000..U+200A, U+2028, U+2029,
\* U+202F, U+205F, U+3000
WhiteSpaceExcludingLatin ==
  {5760} \cup (8192..8202) \cup {8232, 8233, 8239, 8287, 12288}

\* unicode.IsSpace, the test strings.Fields separates fields with: up to
\* U+00FF tab, newline, vertical tab, form feed, carriage return, space,
\* U+0085 and U+00A0; above it the White_Space table
IsSpace(c) ==
  IF ~Named(c) THEN c \in {"\t", "\n", "", "\f", "\r", " "}
  ELSE IF CodePoint(c) <= MaxLatin1 THEN CodePoint(c) \in {9, 10, 11, 12, 13, 32, 133, 160}
  ELSE CodePoint(c) \in WhiteSpaceExcludingLatin

\* utf8.RuneLen: the bytes the rune takes in the file
RuneLen(c) ==
  IF ~Named(c) \/ CodePoint(c) < 128 THEN 1
  ELSE IF CodePoint(c) < 2048 THEN 2
  ELSE IF CodePoint(c) < 65536 THEN 3
  ELSE 4

\* len(s): the bytes of a string
ByteLen(s) ==
  Len(s) + Cardinality({i \in 1..Len(s) : RuneLen(s[i]) >= 2})
         + Cardinality({i \in 1..Len(s) : RuneLen(s[i]) >= 3})
         + Cardinality({i \in 1..Len(s) : RuneLen(s[i]) >= 4})

\* the k-th smallest element of a set of numbers
Kth(S, k) == CHOOSE x \in S : Cardinality({y \in S : y <= x}) = k

\* strings.Split(s, sep) for a one-character separator: the pieces between
\* consecutive separators, Count(sep)+1 of them
Split(s, sep) ==
  LET seps == {j \in 1..Len(s) : s[j] = sep}
      cut(k) == IF k = 0 THEN 0
                ELSE IF k > Cardinality(seps) THEN Len(s) + 1
                ELSE Kth(seps, k)
  IN [k \in 1..(Cardinality(seps) + 1) |->
        SubSeq(s, cut(k - 1) + 1, cut(k) - 1)]

RECURSIVE Join(_, _)
\* strings.Join(a, sep)
Join(a, sep) ==
  IF Len(a) = 0 THEN <<>>
  ELSE IF Len(a) = 1 THEN a[1]
  ELSE a[1] \o <<sep>> \o Join(Tail(a), sep)

\* strings.Fields(s): the maximal runs of characters that are not white space
Fields(s) ==
  LET starts == {i \in 1..Len(s) :
                   ~IsSpace(s[i]) /\ (i = 1 \/ IsSpace(s[i - 1]))}
      ends   == {i \in 1..Len(s) :
                   ~IsSpace(s[i]) /\ (i = Len(s) \/ IsSpace(s[i + 1]))}
  IN [k \in 1..Cardinality(starts) |->
        SubSeq(s, Kth(starts, k), Kth(ends, k))]

\* strings.HasPrefix(s, p)
HasPrefix(s, p) == Len(s) >= Len(p) /\ SubSeq(s, 1, Len(p)) = p

\* bufio.dropCR
dropCR(s) ==
  IF Len(s) > 0 /\ s[Len(s)] = "\r" THEN SubSeq(s, 1, Len(s) - 1) ELSE s

\* bufio.MaxScanTokenSize, the size the Scanner lets its buffer grow to
MaxScanTokenSize == 65536

\* The pieces of the data between newlines whose line does not fit the
\* buffer: a line with its newline takes more than MaxScanTokenSize bytes,
\* or the unterminated rest fills the buffer before the end of the data is
\* seen.
TooLong(data) ==
  LET parts == Split(data, "\n")
  IN { i \in 1..Len(parts) :
         IF i < Len(parts) THEN ByteLen(parts[i]) + 1 > MaxScanTokenSize
         ELSE ByteLen(parts[i]) >= MaxScanTokenSize }

\* bufio.ScanLines applied until Scan returns false: the tokens that
\* scanner.Scan() delivers, in order.  A final unterminated line is a token
\* when it is not empty.  Scan stops at the first line that does not fit
\* the buffer, and delivers nothing after it.
ScanLines(data) ==
  LET parts == Split(data, "\n")
      kept  == IF parts[Len(parts)] = <<>>
               THEN SubSeq(parts, 1, Len(parts) - 1) ELSE parts
      long  == TooLong(data)
      upto  == IF long = {} THEN Len(kept)
               ELSE (CHOOSE i \in long : \A j \in long : i <= j) - 1
  IN [i \in 1..upto |-> dropCR(kept[i])]

\* bufio.Reader.ReadString('\n') applied until io.EOF: the lines returned
\* with a nil error, delimiter included.  The unterminated rest of the data
\* comes back together with io.EOF (or with the read error).
ReadStrings(data) ==
  LET parts == Split(data, "\n")
  IN [i \in 1..(Len(parts) - 1) |-> Append(parts[i], "\n")]

----------------------------------------------------------------------------
(* Source, Router *)

\* the zero value Source{}
ZeroSource == [Vcs |-> <<>>, Url |-> <<>>]

\* make(Router): a map with no entries
EmptyRouter == [k \in {} |-> ZeroSource]

\* rt[key] = src
Put(rt, key, src) ==
  [k \in (DOMAIN rt) \cup {key} |-> IF k = key THEN src ELSE rt[k]]

\* the name the server was started with
ConfigName == <<"c", "f", "g">>

NoErr == [kind |-> "nil"]

----------------------------------------------------------------------------
(* Router.findPath *)

RECURSIVE findShortest(_, _, _)
\* findLoop searching from the first segment upwards
findShortest(rt, nodes, k) ==
  IF k > Len(nodes)
  THEN [src |-> ZeroSource, root |-> <<>>, ok |-> FALSE, tested |-> <<>>]
  ELSE LET path == Join(SubSeq(nodes, 1, k), "/") IN
       IF path \in DOMAIN rt
       THEN [src |-> rt[path], root |-> path, ok |-> TRUE, tested |-> <<path>>]
       ELSE [findShortest(rt, nodes, k + 1) EXCEPT !.tested = <<path>> \o @]

findLoopShortest(rt, nodes) == findShortest(rt, nodes, 1)

RECURSIVE findStopsEarly(_, _)
\* findLoop giving up when one segment is left: "for len(nodes) > 1"
findStopsEarly(rt, nodes) ==
  IF Len(nodes) > 1
  THEN LET path == Join(nodes, "/") IN
       IF path \in DOMAIN rt
       THEN [src |-> rt[path], root |-> path, ok |-> TRUE, tested |-> <<path>>]
       ELSE [findStopsEarly(rt, SubSeq(nodes, 1, Len(nodes) - 1))
               EXCEPT !.tested = <<path>> \o @]
  ELSE [src |-> ZeroSource, root |-> <<>>, ok |-> FALSE, tested |-> <<>>]

findLoopStopsEarly(rt, nodes) == findStopsEarly(rt, nodes)

RECURSIVE findBytes(_, _)
\* findLoop dropping one character at a time instead of one segment
findBytes(rt, path) ==
  IF path \in DOMAIN rt
  THEN [src |-> rt[path], root |-> path, ok |-> TRUE, tested |-> <<path>>]
  ELSE IF Len(path) = 0
  THEN [src |-> ZeroSource, root |-> <<>>, ok |-> FALSE, tested |-> <<path>>]
  ELSE [findBytes(rt, SubSeq(path, 1, Len(path) - 1))
          EXCEPT !.tested = <<path>> \o @]

findLoopBytes(rt, nodes) == findBytes(rt, Join(nodes, "/"))

RECURSIVE findLoop(_, _)
\* the loop of findPath; tested lists the candidates looked up in the map,
\* in order
findLoop(rt, nodes) ==
  IF Len(nodes) > 0
  THEN LET path == Join(nodes, "/") IN
       IF path \in DOMAIN rt
       THEN [src |-> rt[path], root |-> path, ok |-> TRUE, tested |-> <<path>>]
       ELSE [findLoop(rt, SubSeq(nodes, 1, Len(nodes) - 1))
               EXCEPT !.tested = <<path>> \o @]
  ELSE [src |-> ZeroSource, root |-> <<>>, ok |-> FALSE, tested |-> <<>>]

\* what findPath returns
findPath(rt, path) ==
  LET f == findLoop(rt, Split(path, "/")) IN
  [src |-> f.src, root |-> f.root, ok |-> f.ok]

----------------------------------------------------------------------------
(* NewRouter (src/gogive.go) *)

\* One iteration of the scan loop, after cnt++.  rt is the table built so far.
\* stop is TRUE when the iteration returns from NewRouter.
ScanLine(rt, cnt, text) ==
  IF HasPrefix(text, <<"#">>)
  THEN [r |-> rt, stop |-> FALSE, err |-> NoErr]
  ELSE LET fields == Fields(text) IN
       IF Len(fields) = 0 THEN [r |-> rt, stop |-> FALSE, err |-> NoErr]
       ELSE IF Len(fields) # 3 THEN [r |-> rt, stop |-> FALSE, err |-> NoErr]
       ELSE IF fields[1] \in DOMAIN rt
       THEN [r |-> rt, stop |-> TRUE,
             err |-> [kind |-> "duplicate", file |-> ConfigName,
                      line |-> cnt, prefix |-> fields[1]]]
       ELSE [r |-> Put(rt, fields[1], [Vcs |-> fields[2], Url |-> fields[3]]),
             stop |-> FALSE, err |-> NoErr]

\* scanner.Err() once Scan has returned false
ScannerErr(f) ==
  IF TooLong(f.data) # {} THEN [kind |-> "toolong"]
  ELSE IF f.ioErr THEN [kind |-> "read"]
  ELSE NoErr

RECURSIVE ScanLoop(_, _, _, _)
ScanLoop(f, rt, cnt, lines) ==
  IF lines = <<>>
  THEN [isNil |-> FALSE, r |-> rt, err |-> ScannerErr(f)]
  ELSE LET it == ScanLine(rt, cnt + 1, Head(lines)) IN
       IF it.stop
       THEN [isNil |-> TRUE, r |-> EmptyRouter, err |-> it.err]
       ELSE ScanLoop(f, it.r, cnt + 1, Tail(lines))

NewRouter(f) ==
  IF ~f.exists
  THEN [isNil |-> TRUE, r |-> EmptyRouter, err |-> [kind |-> "open"]]
  ELSE ScanLoop(f, EmptyRouter, 0, ScanLines(f.data))

----------------------------------------------------------------------------
(* NewRouter as it was when the loop was Server.Run (bufio.Reader) *)

\* One iteration of the read loop, after cnt++, for a line read with a nil
\* error (the line ends with its newline).
RunScanLine(rt, cnt, line) ==
  IF ByteLen(line) < 2 THEN [r |-> rt, stop |-> FALSE, err |-> NoErr]
  ELSE IF line[1] = "#" THEN [r |-> rt, stop |-> FALSE, err |-> NoErr]
  ELSE LET fields == Fields(line) IN
       IF Len(fields) # 3
       THEN [r |-> rt, stop |-> TRUE,
             err |-> [kind |-> "fields", file |-> ConfigName,
                      line |-> cnt, text |-> line]]
       ELSE IF fields[1] \in DOMAIN rt
       THEN [r |-> rt, stop |-> TRUE,
             err |-> [kind |-> "duplicate", file |-> ConfigName,
                      line |-> cnt, prefix |-> fields[1]]]
       ELSE [r |-> Put(rt, fields[1], [Vcs |-> fields[2], Url |-> fields[3]]),
             stop |-> FALSE, err |-> NoErr]

\* the error of the ReadString call that ends the loop, io.EOF left out
RunReadErr(f) == IF f.ioErr THEN [kind |-> "read"] ELSE NoErr

RECURSIVE RunScanLoop(_, _, _, _)
RunScanLoop(f, rt, cnt, lines) ==
  IF lines = <<>>
  THEN IF RunReadErr(f) # NoErr
       THEN [isNil |-> TRUE, r |-> EmptyRouter, err |-> RunReadErr(f)]
       ELSE [isNil |-> FALSE, r |-> rt, err |-> NoErr]
  ELSE LET it == RunScanLine(rt, cnt + 1, Head(lines)) IN
       IF it.stop
       THEN [isNil |-> TRUE, r |-> EmptyRouter, err |-> it.err]
       ELSE RunScanLoop(f, it.r, cnt + 1, Tail(lines))

RunNewRouter(f) ==
  IF ~f.exists
  THEN [isNil |-> TRUE, r |-> EmptyRouter, err |-> [kind |-> "open"]]
  ELSE RunScanLoop(f, EmptyRouter, 0, ReadStrings(f.data))

----------------------------------------------------------------------------
(* bounds and inputs of the server specification *)

NumHandlers == 2
MaxReloads == 1

Handlers == 1..NumHandlers

RECURSIVE Cat(_)
\* the file made of the given lines, each terminated by a newline
Cat(lines) ==
  IF lines = <<>> THEN <<>> ELSE Head(lines) \o <<"\n">> \o Cat(Tail(lines))

LineAgu  == <<"/", "a", " ", "g", " ", "u">>
LineAhv  == <<"/", "a", " ", "h", " ", "v">>
LineABgu == <<"/", "a", "/", "b", "\t", "g", " ", " ", "u">>
LineAg   == <<"/", "a", " ", "g">>
LineCmt  == <<"#", "/", "a", " ", "g", " ", "u">>

OnDisk(data) == [exists |-> TRUE, data |-> data, ioErr |-> FALSE]

\* no file of that name: os.Open fails
NoFile == [exists |-> FALSE, data |-> <<>>, ioErr |-> FALSE]

FileOne    == OnDisk(Cat(<<LineAgu>>))
FileTwo    == OnDisk(Cat(<<LineCmt, <<>>, LineAhv, LineABgu>>))
FileShort  == OnDisk(Cat(<<LineAg>>))
FileDup    == OnDisk(Cat(<<LineAhv, LineAgu>>))

SysFiles == {NoFile, FileOne, FileTwo, FileShort, FileDup}

Host == <<"x", ".", "o">>

PathAB  == <<"/", "a", "/", "b">>

SysRequests ==
  { [method |-> "GET", path |-> PathAB, goget |-> <<"1">>],
    [method |-> "POST", path |-> PathAB, goget |-> <<"1">>] }

NoReq  == [method |-> "", path |-> <<>>, goget |-> <<>>]
NoResp == [status |-> 0]

NilRef == 0

----------------------------------------------------------------------------
(* heap of Router maps *)

\* make(Router) replaced by clearing and reusing the newest map
MakeRouterReused(h) ==
  IF Len(h) = 0 THEN [ref |-> 1, heap |-> <<EmptyRouter>>]
  ELSE [ref |-> Len(h), heap |-> [h EXCEPT ![Len(h)] = EmptyRouter]]

\* make(Router): a fresh, empty map
MakeRouter(h) == [ref |-> Len(h) + 1, heap |-> Append(h, EmptyRouter)]

\* make(Router) when the allocator hands out again memory that the
\* collector has freed: the new map is at an address no live reference has
MakeRouterAt(h, live) ==
  LET free == {i \in 1..Len(h) : i \notin live} IN
  IF free = {} THEN MakeRouter(h)
  ELSE LET i == CHOOSE x \in free : \A y \in free : x <= y
       IN [ref |-> i, heap |-> [h EXCEPT ![i] = EmptyRouter]]

\* garbage collection: a map that no variable refers to any more is
\* unreachable; its slot is cleared
Sweep(h, live) == [i \in 1..Len(h) |-> IF i \in live THEN h[i] ELSE EmptyRouter]

\* the entries a reference denotes; indexing a nil map finds nothing
Deref(h, ref) == IF ref = NilRef THEN EmptyRouter ELSE h[ref]

----------------------------------------------------------------------------
(* Server.ServeHTTP *)

Godoc == <<"h", "t", "t", "p", ":", "/", "/", "g", "o", "d", "o", "c", ".",
           "o", "r", "g", "/">>

\* the part of ServeHTTP after the receive from s.Routes (src/gogive.go)
Respond(table, rq) ==
  LET f == findPath(table, rq.path) IN
  IF ~f.ok THEN [status |-> 404]
  ELSE IF rq.goget # <<"1">>
  THEN [status |-> 303, location |-> Godoc \o Host \o rq.path]
  ELSE [status |-> 200,
        match |-> [Vcs |-> f.src.Vcs, Url |-> f.src.Url,
                   Host |-> Host, Path |-> f.root]]

Alive == mpc \notin {"fatal", "killed"}

\* a request arrives at a free slot (the previous invocation, if any, has
\* returned); ServeHTTP runs up to the receive from s.Routes
Arrive(h, rq) ==
  /\ Alive
  /\ hpc[h] \in {"idle", "done"}
  /\ req' = [req EXCEPT ![h] = rq]
  /\ routes' = [routes EXCEPT ![h] = NilRef]
  /\ got' = [got EXCEPT ![h] = EmptyRouter]
  /\ IF rq.method # "GET"
     THEN /\ resp' = [resp EXCEPT ![h] = [status |-> 405]]
          /\ hpc' = [hpc EXCEPT ![h] = "done"]
     ELSE /\ hpc' = [hpc EXCEPT ![h] = "recv"]
          /\ resp' = [resp EXCEPT ![h] = NoResp]
  /\ heap' = Sweep(heap, {r, nr} \cup {routes'[g] : g \in Handlers})
  /\ UNCHANGED <<file, mpc, r, nr, n, rest, opened, from,
                 logged, fresh, reloads, arg, ret>>

\* select case srv.Routes <- r, meeting routes := <-s.Routes
Send(h) ==
  /\ mpc = "select"
  /\ hpc[h] = "recv"
  /\ routes' = [routes EXCEPT ![h] = r]
  /\ got' = [got EXCEPT ![h] = Deref(heap, r)]
  /\ hpc' = [hpc EXCEPT ![h] = "find"]
  /\ UNCHANGED <<file, heap, mpc, r, nr, n, rest, opened, from, req, resp,
                 logged, fresh, reloads, arg, ret>>

\* what pageTmpl.Execute returns when writing the page fails (the client
\* has gone), passed to log.Print
WriteErr == [kind |-> "write"]

\* ServeHTTP from findPath to the end.  Writing the page fails or not;
\* when it does, ServeHTTP logs the error.
Resolve(h) ==
  /\ Alive
  /\ hpc[h] = "find"
  /\ resp' = [resp EXCEPT ![h] = Respond(Deref(heap, routes[h]), req[h])]
  /\ hpc' = [hpc EXCEPT ![h] = "done"]
  /\ \/ logged' = logged
     \/ resp'[h].status = 200 /\ logged' = WriteErr
  /\ UNCHANGED <<file, heap, mpc, r, nr, n, rest, opened, from, req, routes, got,
                 fresh, reloads, arg, ret>>

----------------------------------------------------------------------------
(* main and Server.loadConfig (src/gogive.go) *)

\* Returned for a loop that assigns r = nr whether the reload failed or not
ReturnedAssigns(hp, ref, err) ==
  /\ nr' = NilRef
  /\ n' = 0
  /\ rest' = <<>>
  /\ opened' = NoFile
  /\ IF mpc \in {"init", "initScan"} /\ err # NoErr
     THEN mpc' = "fatal" /\ logged' = err /\ UNCHANGED <<r, from>>
     ELSE /\ mpc' = "select"
          /\ logged' = (IF err # NoErr THEN err ELSE logged)
          /\ r' = ref
          /\ from' = opened
  /\ heap' = Sweep(hp, {r'} \cup {routes[g] : g \in Handlers})

\* Returned for a loop that returns the error of a failed reload to main
ReturnedExits(hp, ref, err) ==
  /\ nr' = NilRef
  /\ n' = 0
  /\ rest' = <<>>
  /\ opened' = NoFile
  /\ IF err # NoErr
     THEN mpc' = "fatal" /\ logged' = err /\ UNCHANGED <<r, from>>
     ELSE mpc' = "select" /\ logged' = logged /\ r' = ref /\ from' = opened
  /\ heap' = Sweep(hp, {r'} \cup {routes[g] : g \in Handlers})

\* what the caller of NewRouter does with (ref, err): main's log.Fatal for
\* the first call, the select case <-sig for the later ones.  NewRouter's
\* locals are gone; hp is the heap at the return.
Returned(hp, ref, err) ==
  /\ nr' = NilRef
  /\ n' = 0
  /\ rest' = <<>>
  /\ opened' = NoFile
  /\ IF mpc \in {"init", "initScan"}
     THEN IF err # NoErr
          THEN mpc' = "fatal" /\ logged' = err /\ UNCHANGED <<r, from>>
          ELSE mpc' = "select" /\ logged' = logged /\ r' = ref
               /\ from' = opened
     ELSE /\ mpc' = "select"
          /\ IF err # NoErr
             THEN logged' = err /\ UNCHANGED <<r, from>>
             ELSE logged' = logged /\ r' = ref /\ from' = opened
  /\ heap' = Sweep(hp, {r'} \cup {routes[g] : g \in Handlers})

\* NewRouter up to os.Open, mk being the result of make(Router)
OpenWith(mk, scanpc) ==
  /\ IF file.exists
     THEN /\ heap' = mk.heap
          /\ nr' = mk.ref
          /\ n' = 0
          /\ rest' = ScanLines(file.data)
          /\ opened' = file
          /\ mpc' = scanpc
          /\ UNCHANGED <<r, from, logged>>
     ELSE Returned(mk.heap, NilRef, [kind |-> "open"])

Open(scanpc) == OpenWith(MakeRouter(heap), scanpc)

\* one turn of "for scanner.Scan()", or the return after the last one
Scan ==
  /\ mpc \in {"initScan", "reloadScan"}
  /\ IF rest = <<>>
     THEN Returned(heap, nr, ScannerErr(opened))
     ELSE LET it == ScanLine(heap[nr], n + 1, Head(rest)) IN
          IF it.stop
          THEN Returned(heap, NilRef, it.err)
          ELSE /\ heap' = [heap EXCEPT ![nr] = it.r]
               /\ n' = n + 1
               /\ rest' = Tail(rest)
               /\ UNCHANGED <<mpc, r, from, nr, opened, logged>>
  /\ UNCHANGED <<file, hpc, req, routes, got, resp, fresh, reloads, arg, ret>>

\* loadConfig calls NewRouter for the first time
InitLoad ==
  /\ mpc = "init"
  /\ Open("initScan")
  /\ UNCHANGED <<fresh, file, hpc, req, routes, got, resp, reloads, arg, ret>>

\* SIGHUP while loadConfig waits in its select: case <-sig
SighupTaken ==
  /\ mpc = "select"
  /\ reloads < MaxReloads
  /\ reloads' = reloads + 1
  /\ fresh' = TRUE
  /\ Open("reloadScan")
  /\ UNCHANGED <<file, hpc, req, routes, got, resp, arg, ret>>

\* SIGHUP taken by the select, any number of times: the call is not
\* counted, and the map is allocated where the collector made room
SighupRetaken ==
  /\ mpc = "select"
  /\ fresh' = TRUE
  /\ OpenWith(MakeRouterAt(heap, {r} \cup {routes[g] : g \in Handlers}),
              "reloadScan")
  /\ UNCHANGED <<file, hpc, req, routes, got, resp, reloads, arg, ret>>

\* a signal that starts a NewRouter call of its own although one is running
SighupRestarts ==
  /\ mpc = "reloadScan"
  /\ reloads <= MaxReloads
  /\ reloads' = reloads + 1
  /\ fresh' = TRUE
  /\ Open("reloadScan")
  /\ UNCHANGED <<file, hpc, req, routes, got, resp, arg, ret>>

\* SIGHUP while the goroutine of loadConfig is not parked in its select (it
\* is inside NewRouter, or in the loop between two selects, or completing a
\* send): nobody receives from the unbuffered sig, and os/signal does not
\* block sending to it
SighupDropped ==
  /\ mpc \in {"select", "reloadScan"}
  /\ fresh' = TRUE
  /\ UNCHANGED <<file, heap, mpc, r, nr, n, rest, opened, from, hpc, req, routes,
                 got, resp, logged, reloads, arg, ret>>

\* SIGHUP before signal.Notify: the default action ends the process
SighupKills ==
  /\ mpc \in {"init", "initScan"}
  /\ mpc' = "killed"
  /\ UNCHANGED <<file, heap, r, nr, n, rest, opened, from, hpc, req, routes,
                 got, resp, logged, fresh, reloads, arg, ret>>

\* somebody replaces or removes the configuration file
EditFile(f) ==
  /\ Alive
  /\ f # file
  /\ file' = f
  /\ fresh' = FALSE
  /\ UNCHANGED <<heap, mpc, r, nr, n, rest, opened, from, hpc, req, routes,
                 got, resp, logged, reloads, arg, ret>>

----------------------------------------------------------------------------
(* main and Server.Run, the earlier form of the loop *)

\* ServeHTTP after the receive, before the redirect to godoc.org was added
RunRespond(table, rq) ==
  LET f == findPath(table, rq.path) IN
  IF ~f.ok THEN [status |-> 404]
  ELSE [status |-> 200,
        match |-> [Vcs |-> f.src.Vcs, Url |-> f.src.Url,
                   Host |-> Host, Path |-> f.root]]

RunResolve(h) ==
  /\ Alive
  /\ hpc[h] = "find"
  /\ resp' = [resp EXCEPT ![h] = RunRespond(Deref(heap, routes[h]), req[h])]
  /\ hpc' = [hpc EXCEPT ![h] = "done"]
  /\ UNCHANGED <<file, heap, mpc, r, nr, n, rest, opened, from, req, routes,
                 got, logged, fresh, reloads, arg, ret>>

\* what Run does with (ref, err): return err to main's log.Fatal for the
\* first call; for the later ones log.Print(err) if any, then r = nr
RunReturned(hp, ref, err) ==
  /\ nr' = NilRef
  /\ n' = 0
  /\ rest' = <<>>
  /\ opened' = NoFile
  /\ IF mpc \in {"init", "initScan"}
     THEN IF err # NoErr
          THEN mpc' = "fatal" /\ logged' = err /\ UNCHANGED <<r, from>>
          ELSE mpc' = "select" /\ logged' = logged /\ r' = ref
               /\ from' = opened
     ELSE /\ mpc' = "select"
          /\ logged' = (IF err # NoErr THEN err ELSE logged)
          /\ r' = ref
          /\ from' = opened
  /\ heap' = Sweep(hp, {r'} \cup {routes[g] : g \in Handlers})

RunOpen(scanpc) ==
  LET mk == MakeRouter(heap) IN
  /\ IF file.exists
     THEN /\ heap' = mk.heap
          /\ nr' = mk.ref
          /\ n' = 0
          /\ rest' = ReadStrings(file.data)
          /\ opened' = file
          /\ mpc' = scanpc
          /\ UNCHANGED <<r, from, logged>>
     ELSE RunReturned(mk.heap, NilRef, [kind |-> "open"])

\* one turn of the ReadString loop, or the return at io.EOF / read error
RunScan ==
  /\ mpc \in {"initScan", "reloadScan"}
  /\ IF rest = <<>>
     THEN IF RunReadErr(opened) # NoErr
          THEN RunReturned(heap, NilRef, RunReadErr(opened))
          ELSE RunReturned(heap, nr, NoErr)
     ELSE LET it == RunScanLine(heap[nr], n + 1, Head(rest)) IN
          IF it.stop
          THEN RunReturned(heap, NilRef, it.err)
          ELSE /\ heap' = [heap EXCEPT ![nr] = it.r]
               /\ n' = n + 1
               /\ rest' = Tail(rest)
               /\ UNCHANGED <<mpc, r, from, nr, opened, logged>>
  /\ UNCHANGED <<file, hpc, req, routes, got, resp, fresh, reloads, arg, ret>>

RunInitLoad ==
  /\ mpc = "init"
  /\ RunOpen("initScan")
  /\ UNCHANGED <<fresh, file, hpc, req, routes, got, resp, reloads, arg, ret>>

\* SIGHUP while Run waits in its select
RunSighupTaken ==
  /\ mpc = "select"
  /\ reloads < MaxReloads
  /\ reloads' = reloads + 1
  /\ fresh' = TRUE
  /\ RunOpen("reloadScan")
  /\ UNCHANGED <<file, hpc, req, routes, got, resp, arg, ret>>

\* os.Interrupt while Run waits in its select: Run returns an error and
\* main ends the process with log.Fatal
RunInterrupt ==
  /\ mpc = "select"
  /\ mpc' = "fatal"
  /\ logged' = [kind |-> "interrupt"]
  /\ UNCHANGED <<file, heap, r, nr, n, rest, opened, from, hpc, req, routes,
                 got, resp, fresh, reloads, arg, ret>>

Init ==
  /\ file \in SysFiles
  /\ heap = <<>>
  /\ mpc = "init"
  /\ r = NilRef
  /\ nr = NilRef
  /\ n = 0
  /\ rest = <<>>
  /\ opened = NoFile
  /\ from = NoFile
  /\ hpc = [h \in Handlers |-> "idle"]
  /\ req = [h \in Handlers |-> NoReq]
  /\ routes = [h \in Handlers |-> NilRef]
  /\ got = [h \in Handlers |-> EmptyRouter]
  /\ resp = [h \in Handlers |-> NoResp]
  /\ logged = NoErr
  /\ fresh = FALSE
  /\ reloads = 0
  /\ arg = [fn |-> "none"]
  /\ ret = [fn |-> "none"]

Next ==
  \/ InitLoad
  \/ Scan
  \/ SighupTaken
  \/ SighupDropped
  \/ SighupKills
  \/ \E f \in SysFiles : EditFile(f)
  \/ \E h \in Handlers : \E rq \in SysRequests : Arrive(h, rq)
  \/ \E h \in Handlers : Send(h)
  \/ \E h \in Handlers : Resolve(h)

Spec == Init /\ [][Next]_vars

\* The scheduler runs every goroutine that can run: NewRouter proceeds, a
\* handler holding a table resolves, and a select with a ready receiver and
\* no signal sends.  Signals, file changes and requests are up to the
\* environment.
FairSpec ==
  /\ Spec
  /\ WF_vars(InitLoad)
  /\ WF_vars(Scan)
  /\ \A h \in Handlers : WF_vars(Send(h))
  /\ \A h \in Handlers : WF_vars(Resolve(h))

\* the server under signals without end, its file being there or not
SteadyFiles == {NoFile, FileOne}

\* the requests that reach the receive from s.Routes
SteadyRequests == { rq \in SysRequests : rq.method = "GET" }

SteadyInit == Init /\ file \in SteadyFiles

NextSteady ==
  \/ InitLoad
  \/ Scan
  \/ SighupRetaken
  \/ SighupDropped
  \/ SighupKills
  \/ \E f \in SteadyFiles : EditFile(f)
  \/ \E h \in Handlers : \E rq \in SteadyRequests : Arrive(h, rq)
  \/ \E h \in Handlers : Send(h)
  \/ \E h \in Handlers : Resolve(h)

\* Every NewRouter call returns, and the select is fair: a case that is
\* ready again and again is chosen in the end, however often the other
\* case is ready too.
FairSelectSpec ==
  /\ SteadyInit /\ [][NextSteady]_vars
  /\ WF_vars(Scan)
  /\ \A h \in Handlers : SF_vars(Send(h))

NextRun ==
  \/ RunInitLoad
  \/ RunScan
  \/ RunSighupTaken
  \/ RunInterrupt
  \/ SighupDropped
  \/ SighupKills
  \/ \E f \in SysFiles : EditFile(f)
  \/ \E h \in Handlers : \E rq \in SysRequests : Arrive(h, rq)
  \/ \E h \in Handlers : Send(h)
  \/ \E h \in Handlers : RunResolve(h)

SpecRun == Init /\ [][NextRun]_vars

----------------------------------------------------------------------------
(* direct calls of findPath and NewRouter on enumerated inputs *)

MaxPathLen == 4
MaxLines == 3

Alphabet == {"/", "a"}

\* the strings over Alphabet of length at most k
Strs(k) == UNION { [1..m -> Alphabet] : m \in 0..k }

\* keys are fields of a line: never empty
FindKeys == Strs(MaxPathLen) \ {<<>>}

\* a Source that tells which key it was stored under
SrcOf(key) == [Vcs |-> <<"g">>, Url |-> <<"u", ":">> \o key]

TableOn(keys) == [k \in keys |-> SrcOf(k)]

\* the tables of at most two keys
FindTables == {TableOn({})} \cup { TableOn({x, y}) : x \in FindKeys, y \in FindKeys }

KeyNet     == <<"/", "n", "e", "t">>
PathNetwork == <<"/", "n", "e", "t", "w", "o", "r", "k">>
PathNetLldp == <<"/", "n", "e", "t", "/", "l", "l", "d", "p">>
SourceS    == [Vcs |-> <<"g", "i", "t">>, Url |-> <<"S">>]
TableNet   == [k \in {KeyNet} |-> SourceS]

FindInputs ==
  { [fn |-> "findPath", r |-> t, path |-> p] :
      t \in FindTables, p \in Strs(MaxPathLen) }
  \cup { [fn |-> "findPath", r |-> TableNet, path |-> p] :
           p \in {KeyNet, PathNetwork, PathNetLldp} }

LoadLines ==
  { <<>>,
    <<" ">>,
    <<"#", "c">>,
    <<"/", "a", " ", "g", " ", "u">>,
    <<"/", "a", " ", "h", " ", "v">>,
    <<"/", "b", "\t", "g", " ", " ", "u", "\r">>,
    <<"/", "a", " ", "g">>,
    <<"/", "b", " ", "g", " ", "u", " ", "x">>,
    <<" ", "#", "b", " ", "g", " ", "u">>,
    <<"/", "c", "", "g", "U+00A0", "u", "U+0085">>,
    <<"/", "U+00E9", "U+2003", "g", "U+3000", "u", "U+2028">> }

\* the lines joined by newlines; the last one is terminated or not
Unterminated(lines) ==
  IF lines = <<>> THEN <<>>
  ELSE Cat(SubSeq(lines, 1, Len(lines) - 1)) \o lines[Len(lines)]

\* comment lines of MaxScanTokenSize bytes: of ASCII characters only, and
\* one rune shorter with a two-byte rune at the end
LongComment == <<"#">> \o [i \in 1..(MaxScanTokenSize - 1) |-> "c"]
LongCommentLatin == <<"#">> \o [i \in 1..(MaxScanTokenSize - 3) |-> "c"] \o <<"U+00A0">>

\* files with that line between two records, of different or equal prefix
LongFiles ==
  { [exists |-> TRUE, ioErr |-> FALSE,
     data |-> LineAgu \o <<"\n">> \o long \o <<"\n">> \o last \o <<"\n">>] :
      long \in {LongComment, LongCommentLatin},
      last \in {LineAhv, <<"/", "b", " ", "h", " ", "v">>} }

LoadFiles ==
  {NoFile}
  \cup LongFiles
  \cup { [exists |-> TRUE, data |-> Cat(ls), ioErr |-> e] :
           ls \in UNION { [1..m -> LoadLines] : m \in 0..MaxLines },
           e \in BOOLEAN }
  \cup { [exists |-> TRUE, data |-> Unterminated(ls), ioErr |-> FALSE] :
           ls \in UNION { [1..m -> LoadLines] : m \in 1..MaxLines } }

LoadInputs == { [fn |-> "NewRouter", file |-> f] : f \in LoadFiles }

NoRet == [fn |-> "none"]

\* the server does not run
Idle ==
  /\ file = NoFile
  /\ heap = <<>>
  /\ mpc = "init"
  /\ r = NilRef
  /\ nr = NilRef
  /\ n = 0
  /\ rest = <<>>
  /\ opened = NoFile
  /\ from = NoFile
  /\ hpc = [h \in Handlers |-> "idle"]
  /\ req = [h \in Handlers |-> NoReq]
  /\ routes = [h \in Handlers |-> NilRef]
  /\ got = [h \in Handlers |-> EmptyRouter]
  /\ resp = [h \in Handlers |-> NoResp]
  /\ logged = NoErr
  /\ fresh = FALSE
  /\ reloads = 0

CallFindPath ==
  /\ arg.fn = "findPath"
  /\ ret.fn = "none"
  /\ ret' = [fn |-> "findPath", out |-> findPath(arg.r, arg.path),
             tested |-> findLoop(arg.r, Split(arg.path, "/")).tested]
  /\ UNCHANGED <<arg, sysVars>>

FindInit == Idle /\ arg \in FindInputs /\ ret = NoRet

FindNext == CallFindPath

FindSpec == FindInit /\ [][FindNext]_vars

CallNewRouter ==
  /\ arg.fn = "NewRouter"
  /\ ret.fn = "none"
  /\ ret' = [fn |-> "NewRouter", out |-> NewRouter(arg.file)]
  /\ UNCHANGED <<arg, sysVars>>

CallRunNewRouter ==
  /\ arg.fn = "NewRouter"
  /\ ret.fn = "none"
  /\ ret' = [fn |-> "RunNewRouter", out |-> RunNewRouter(arg.file)]
  /\ UNCHANGED <<arg, sysVars>>

LoadInit == Idle /\ arg \in LoadInputs /\ ret = NoRet

LoadNext == CallNewRouter \/ CallRunNewRouter

LoadSpec == LoadInit /\ [][LoadNext]_vars

\* go-get absent (FormValue gives ""), "1", or another value
GoGets == {<<>>, <<"1">>, <<"0">>}

\* r.URL.Path of a request the server hands to the handler: a path that
\* begins with "/", "*" (the request line "GET * HTTP/1.1"), or the empty
\* string (a target without a path, "GET http://x.o HTTP/1.1")
ServePaths ==
  { p \in Strs(MaxPathLen - 1) : p = <<>> \/ p[1] = "/" } \cup { <<"*">> }

ServeInputs ==
  { [fn |-> "ServeHTTP", r |-> t,
     req |-> [method |-> m, path |-> p, goget |-> g]] :
      t \in FindTables, m \in {"GET", "POST"},
      p \in ServePaths, g \in GoGets }

\* a direct call of ServeHTTP, up to the receive from s.Routes: a request
\* that is not a GET is answered, a GET waits for the table
CallServeHTTP ==
  /\ arg.fn = "ServeHTTP"
  /\ ret.fn = "none"
  /\ ret' = IF arg.req.method # "GET"
            THEN [fn |-> "ServeHTTP", out |-> [status |-> 405]]
            ELSE [fn |-> "recv"]
  /\ UNCHANGED <<arg, sysVars>>

\* the table arg.r is sent on s.Routes and the call runs to its end
SendServeHTTP ==
  /\ arg.fn = "ServeHTTP"
  /\ ret.fn = "recv"
  /\ ret' = [fn |-> "ServeHTTP", out |-> Respond(arg.r, arg.req)]
  /\ \/ logged' = logged
     \/ ret'.out.status = 200 /\ logged' = WriteErr
  /\ UNCHANGED <<arg, file, heap, mpc, r, nr, n, rest, opened, from, hpc, req,
                 routes, got, resp, fresh, reloads>>

ServeInit == Idle /\ arg \in ServeInputs /\ ret = NoRet

ServeNext == CallServeHTTP \/ SendServeHTTP

ServeSpec == ServeInit /\ [][ServeNext]_vars

----------------------------------------------------------------------------
(* what a configuration file says, read off its text *)

\* the physical lines of the file, 1-based
PhysLines(f) == Split(f.data, "\n")

IsComment(line) == Len(line) > 0 /\ line[1] = "#"
IsBlank(line) == Fields(line) = <<>>

\* a line that is neither a comment nor blank
IsEntryLine(line) == ~IsComment(line) /\ ~IsBlank(line)

\* an entry line of exactly three fields
IsRecord(line) == IsEntryLine(line) /\ Len(Fields(line)) = 3

\* the numbers of the entry lines whose field count is not 3
BadLines(f) ==
  { i \in 1..Len(PhysLines(f)) :
      IsEntryLine(PhysLines(f)[i]) /\ Len(Fields(PhysLines(f)[i])) # 3 }

\* the numbers of the records whose prefix an earlier record has
DupLines(f) ==
  { j \in 1..Len(PhysLines(f)) :
      /\ IsRecord(PhysLines(f)[j])
      /\ \E i \in 1..(j - 1) :
           /\ IsRecord(PhysLines(f)[i])
           /\ Fields(PhysLines(f)[i])[1] = Fields(PhysLines(f)[j])[1] }

SetMin(S) == CHOOSE x \in S : \A y \in S : x <= y

WellFormed(f) == f.exists /\ ~f.ioErr /\ BadLines(f) = {} /\ DupLines(f) = {}

Malformed(f) == f.exists /\ (BadLines(f) # {} \/ DupLines(f) # {})

\* one entry per record: key = first field, Source = (second, third)
Records(f) ==
  LET recs == { i \in 1..Len(PhysLines(f)) : IsRecord(PhysLines(f)[i]) }
      keys == { Fields(PhysLines(f)[i])[1] : i \in recs }
  IN [k \in keys |->
        LET i == CHOOSE j \in recs : Fields(PhysLines(f)[j])[1] = k
        IN [Vcs |-> Fields(PhysLines(f)[i])[2],
            Url |-> Fields(PhysLines(f)[i])[3]]]

\* K is p, or p cut after one of its '/'-delimited segments
SegAncestor(K, p) ==
  LET ks == Split(K, "/")
      ps == Split(p, "/")
  IN Len(ks) <= Len(ps) /\ SubSeq(ps, 1, Len(ks)) = ks

Matching(rt, p) == { K \in DOMAIN rt : SegAncestor(K, p) }

Longest(S) == CHOOSE K \in S : \A L \in S : Len(L) <= Len(K)

----------------------------------------------------------------------------
(* properties of the maintenance loop *)

\* this step ends a NewRouter call that a signal started
ReloadEnds ==
  \/ mpc = "reloadScan" /\ mpc' = "select"
  \/ mpc = "select" /\ mpc' = "select" /\ reloads' = reloads + 1

\* the file that call opened, or tried to
ReloadFile == IF mpc = "select" THEN file ELSE opened

\* C1: a reload against a file that is missing, or has an entry line whose
\* field count is not 3, or has a duplicate prefix, leaves the published
\* table with the entries it had.
C1_ReloadFailureKeepsTable ==
  [][ (ReloadEnds /\ (~ReloadFile.exists \/ Malformed(ReloadFile)))
        => Deref(heap', r') = Deref(heap, r) ]_vars

\* C2: a handler waiting in its receive from s.Routes can receive the
\* published table also while the loop is inside NewRouter for a reload.
C2_ReceiveDuringReload ==
  \A h \in Handlers :
    (mpc = "reloadScan" /\ hpc[h] = "recv") => ENABLED Send(h)

\* C3: every table a handler receives is not nil and is the complete result
\* of a NewRouter call that returned no error (stated for Server.Run).
C3_RunHandsOutLoadedTables ==
  [][ \A h \in Handlers :
        (hpc[h] = "recv" /\ hpc'[h] = "find")
          => /\ routes'[h] # NilRef
             /\ RunNewRouter(from).err = NoErr
             /\ got'[h] = RunNewRouter(from).r ]_vars

\* the same for Server.loadConfig
LoadConfigHandsOutLoadedTables ==
  [][ \A h \in Handlers :
        (hpc[h] = "recv" /\ hpc'[h] = "find")
          => /\ routes'[h] # NilRef
             /\ NewRouter(from).err = NoErr
             /\ got'[h] = NewRouter(from).r ]_vars

\* a table that the loop publishes or a handler holds
Referenced(i) == i = r \/ \E h \in Handlers : routes[h] = i

\* C4: a table that is published or held, and stays so, keeps its entries
\* through every step; a handler holding a table keeps the reference it
\* received and answers from the entries the table had at the receive,
\* whatever reloads happen in between.
C4_ReloadIsolation ==
  [][ /\ \A i \in 1..Len(heap) :
           (Referenced(i) /\ Referenced(i)') => heap'[i] = heap[i]
      /\ \A h \in Handlers :
           hpc[h] = "find"
             => /\ routes'[h] = routes[h]
                /\ hpc'[h] = "done" => resp'[h] = Respond(got[h], req[h]) ]_vars

\* a handler has answered from the table it received although a reload has
\* since published a table that answers its request differently
C4_Witness ==
  \E h \in Handlers :
    /\ hpc[h] = "done"
    /\ resp[h].status = 200
    /\ reloads >= 1
    /\ mpc = "select"
    /\ routes[h] # r
    /\ resp[h] = Respond(got[h], req[h])
    /\ resp[h] # Respond(Deref(heap, r), req[h])

\* C5: after a SIGHUP sent while the file is valid, and for as long as the
\* file stays as it is, the table handed to handlers eventually has the
\* file's entries.
C5_EventuallyConsistent ==
  (fresh /\ WellFormed(file))
    ~> (~fresh \/ (mpc = "select" /\ Deref(heap, r) = Records(file)))

\* In the loop, on the files of SysFiles: a NewRouter call on a well-formed
\* file returns no error, and the table handed to handlers afterwards has
\* exactly the file's records as entries.
LoopLoadsWellFormedFiles ==
  [][ /\ (mpc \in {"initScan", "reloadScan"} /\ mpc' \notin {"initScan", "reloadScan", "killed"}
            /\ WellFormed(opened))
          => /\ mpc' = "select"
             /\ logged' = logged
             /\ r' = nr
             /\ Deref(heap', r') = Records(opened)
      /\ \A h \in Handlers :
           (hpc[h] = "recv" /\ hpc'[h] = "find" /\ WellFormed(from))
             => got'[h] = Records(from) /\ Deref(heap', routes'[h]) = Records(from) ]_vars

\* C10: while the first NewRouter call has not succeeded, and after it has
\* failed, no request of any method has a response.
C10_NoResponseBeforeFirstLoad ==
  mpc \in {"init", "initScan", "fatal"}
    => \A h \in Handlers : resp[h] = NoResp

\* this step starts a NewRouter call
CallStarts ==
  \/ reloads' # reloads
  \/ mpc = "init" /\ mpc' \notin {"init", "killed"}

\* C11: a NewRouter call starts only when none is in progress, and the
\* table under construction belongs to that one call; whatever arrives
\* while a reload is in flight starts no call, and when the reload ends the
\* loop is back in its select with no call in progress, so that triggers
\* arriving during a reload cause no more than one further reload.
C11_OneLoadAtATime ==
  [][ /\ CallStarts => (mpc \in {"init", "select"} /\ nr = NilRef)
      /\ nr # NilRef => (mpc \in {"initScan", "reloadScan"} /\ ~Referenced(nr))
      /\ mpc = "reloadScan"
           => /\ reloads' = reloads
              /\ \/ mpc' = "reloadScan" /\ nr' = nr /\ opened' = opened
                 \/ mpc' = "select" /\ nr' = NilRef ]_vars

\* a SIGHUP has arrived while a reload is in flight (it was sent after
\* the file that reload had opened was replaced), and the call in progress
\* is still the only one started by a signal
C11_Witness ==
  /\ mpc = "reloadScan"
  /\ nr # NilRef
  /\ reloads = 1
  /\ fresh
  /\ WellFormed(file)
  /\ WellFormed(opened)
  /\ opened # file

\* C12: a GET request without the go-get parameter is redirected to
\* godoc.org (http://godoc.org/ + Host + path) whatever its path; a GET
\* request with go-get=1 whose path matches a route gets the go-import page
\* with Host, the matched prefix, and the route's vcs and url.
C12_RedirectOrPage ==
  (ret.fn = "ServeHTTP" /\ arg.req.method = "GET")
    => LET ms == Matching(arg.r, arg.req.path) IN
       /\ arg.req.goget = <<>>
            => ret.out = [status |-> 303,
                          location |-> Godoc \o Host \o arg.req.path]
       /\ (arg.req.goget = <<"1">> /\ ms # {})
            => ret.out = [status |-> 200,
                          match |-> [Vcs |-> arg.r[Longest(ms)].Vcs,
                                     Url |-> arg.r[Longest(ms)].Url,
                                     Host |-> Host, Path |-> Longest(ms)]]

\* C15: the published table changes only when a NewRouter call returns
\* without error, and is then that call's result; maps are allocated in
\* the order of the calls, so a greater reference is a later load: the
\* published reference never decreases, a receive hands out the published
\* table, and no handler holds a table later than the published one, so
\* that a later receive never yields an earlier load's table.
C15_MonotonicGenerations ==
  [][ /\ r' # r
           => /\ mpc \in {"initScan", "reloadScan"}
              /\ mpc' = "select"
              /\ logged' = logged
              /\ r' = nr
              /\ from' = opened
              /\ NewRouter(opened).err = NoErr
              /\ Deref(heap', r') = NewRouter(opened).r
      /\ r' >= r
      /\ \A h \in Handlers :
           /\ (hpc[h] = "recv" /\ hpc'[h] = "find") => routes'[h] = r
           /\ routes[h] <= r ]_vars

\* one handler holds the table of the first load, another has since
\* received the table of the successful reload
C15_Witness ==
  \E g \in Handlers : \E h \in Handlers :
    /\ mpc = "select"
    /\ reloads = 1
    /\ r = 2
    /\ hpc[g] \in {"find", "done"} /\ routes[g] = 1
    /\ hpc[h] = "find" /\ routes[h] = 2
    /\ got[g] # got[h]

\* C16: once the first load has succeeded, a GET handler blocked in its
\* receive from s.Routes eventually receives a table, whatever the other
\* handlers do and however many signals arrive, the select being fair and
\* every NewRouter call returning.
C16_NoHandlerStarves ==
  \A h \in Handlers :
    (hpc[h] = "recv" /\ mpc \in {"select", "reloadScan"}) ~> (hpc[h] = "find")

\* a handler has received the table a reload published while another
\* handler is still blocked and a further reload is in flight
C16_Witness ==
  \E g \in Handlers : \E h \in Handlers :
    /\ mpc = "reloadScan"
    /\ hpc[g] = "recv"
    /\ hpc[h] = "find"
    /\ routes[h] = r
    /\ from # NoFile
    /\ r \notin {NilRef, 1}

----------------------------------------------------------------------------
(* properties of findPath and NewRouter *)

\* C6: findPath returns the longest key that is a segment-wise ancestor of
\* the path, with its Source, and not-found when there is none; "/net" does
\* not match "/network" and does match "/net/lldp".
C6_LongestSegmentPrefix ==
  ret.fn = "findPath"
    => LET ms == Matching(arg.r, arg.path) IN
       /\ ms = {} => ~ret.out.ok
       /\ ms # {} => /\ ret.out.ok
                     /\ ret.out.root = Longest(ms)
                     /\ ret.out.src = arg.r[Longest(ms)]
       /\ (arg.r = TableNet /\ arg.path = PathNetwork) => ~ret.out.ok
       /\ (arg.r = TableNet /\ arg.path = PathNetLldp)
            => ret.out = [src |-> SourceS, root |-> KeyNet, ok |-> TRUE]

\* two keys of the table match the path and the longer one is returned
C6_Witness ==
  /\ ret.fn = "findPath"
  /\ Cardinality(Matching(arg.r, arg.path)) = 2
  /\ ret.out.ok
  /\ Len(ret.out.root) < Len(arg.path)
  /\ \E K \in DOMAIN arg.r : K # ret.out.root /\ SegAncestor(K, arg.path)

\* C7: a file with an entry line whose field count is not 3 makes NewRouter
\* fail with an error that names the file and the number of such a line.
C7_BadFieldCountFails ==
  (ret.fn = "NewRouter" /\ arg.file.exists /\ BadLines(arg.file) # {})
    => /\ ret.out.err.kind = "fields"
       /\ ret.out.err.file = ConfigName
       /\ ret.out.err.line \in BadLines(arg.file)

\* C8: a file with two records of the same prefix makes NewRouter fail at
\* the first record that repeats a prefix, with an error carrying the file
\* name, that record's physical line number and the prefix.
C8_DuplicateFails ==
  (ret.fn = "NewRouter" /\ arg.file.exists /\ DupLines(arg.file) # {})
    => LET j == SetMin(DupLines(arg.file)) IN
       /\ ret.out.isNil
       /\ ret.out.err = [kind |-> "duplicate", file |-> ConfigName, line |-> j,
                         prefix |-> Fields(PhysLines(arg.file)[j])[1]]

\* C9: on a well-formed file with unique prefixes NewRouter returns no
\* error and a table with exactly one entry per record of the file (key =
\* first field, Source = (second field, third field)); comments and blank
\* lines add nothing.
C9_WellFormedFileLoads ==
  (ret.fn = "NewRouter" /\ WellFormed(arg.file))
    => /\ ret.out.err = NoErr
       /\ ~ret.out.isNil
       /\ ret.out.r = Records(arg.file)

\* C13: whenever NewRouter returns an error (the file cannot be opened, a
\* prefix is repeated, or the scanner reports a read error), the table it
\* returns is nil, not a table of the records read so far.
C13_NoPartialTable ==
  (ret.fn = "NewRouter" /\ ret.out.err # NoErr) => ret.out.isNil


\* the places where p can be cut: before one of its slashes, or at its end
Cuts(p) == { k \in 1..(Len(p) + 1) : k = Len(p) + 1 \/ p[k] = "/" }

\* C14 as the specification words it: on every table and every request
\* path, findPath looks up at most one candidate per '/'-delimited segment,
\* down to and including the empty string, and when nothing matches it
\* returns (Source{}, "", false) having looked up the empty string last.
C14_TestsDownToEmpty ==
  ret.fn = "findPath"
    => LET p == arg.path
           t == ret.tested
       IN /\ Len(t) <= Cardinality(Cuts(p))
          /\ ~ret.out.ok
               => /\ Len(t) = Cardinality(Cuts(p))
                  /\ t[Len(t)] = <<>>
                  /\ ret.out = [src |-> ZeroSource, root |-> <<>>, ok |-> FALSE]

\* C14, amended: on every table and every path, findPath looks up at most
\* one candidate per '/'-delimited segment, each one the path cut at a
\* segment boundary and shorter than the one before; when nothing matches
\* it has looked up every one of them, the first segment of the path last,
\* and returns (Source{}, "", false).  The first segment is the empty
\* string exactly when the path is empty or begins with "/".
C14_FindPathTerminates ==
  ret.fn = "findPath"
    => LET p == arg.path
           t == ret.tested
           first == SubSeq(p, 1, SetMin(Cuts(p)) - 1)
       IN /\ Len(t) <= Cardinality(Cuts(p))
          /\ \A i \in 1..Len(t) : \E k \in Cuts(p) : t[i] = SubSeq(p, 1, k - 1)
          /\ \A i \in 1..Len(t) : \A j \in (i + 1)..Len(t) : Len(t[j]) < Len(t[i])
          /\ ret.out.ok => (Len(t) > 0 /\ t[Len(t)] = ret.out.root)
          /\ ~ret.out.ok
               => /\ Len(t) = Cardinality(Cuts(p))
                  /\ t[Len(t)] = first
                  /\ (first = <<>>) <=> (p = <<>> \/ p[1] = "/")
                  /\ ret.out = [src |-> ZeroSource, root |-> <<>>, ok |-> FALSE]

\* nothing matches a path with a repeated and a trailing slash and no
\* leading one: its three candidates were looked up, the first segment last
C14_Witness ==
  /\ ret.fn = "findPath"
  /\ arg.path = <<"a", "/", "/">>
  /\ DOMAIN arg.r # {}
  /\ ~ret.out.ok
  /\ ret.tested = << <<"a", "/", "/">>, <<"a", "/">>, <<"a">> >>

\* K is p, or p begins with K followed by "/"
StrMatch(K, p) ==
  \/ K = p
  \/ /\ Len(K) < Len(p)
     /\ SubSeq(p, 1, Len(K)) = K
     /\ p[Len(K) + 1] = "/"

\* C17: findPath finds a key exactly when some key K of the table has
\* p = K or p beginning with K followed by "/", and returns the longest
\* such key with its Source; so a key ending in "/" is returned only for
\* itself or for a path going on with another "/" ("/" for "/", not for
\* "/a"), and a key without a leading "/" never for a path beginning
\* with "/".
C17_StringLevelReference ==
  ret.fn = "findPath"
    => LET p == arg.path
           ms == { K \in DOMAIN arg.r : StrMatch(K, p) }
       IN /\ ret.out.ok <=> ms # {}
          /\ ms # {} => /\ ret.out.root = Longest(ms)
                        /\ ret.out.src = arg.r[Longest(ms)]
          /\ (ret.out.ok /\ ret.out.root[Len(ret.out.root)] = "/")
               => \/ p = ret.out.root
                  \/ p[Len(ret.out.root) + 1] = "/"
          /\ (ret.out.ok /\ Len(p) > 0 /\ p[1] = "/") => ret.out.root[1] = "/"
          /\ (<<"/">> \in DOMAIN arg.r /\ p = <<"/">>) => ret.out.root = <<"/">>
          /\ (DOMAIN arg.r = {<<"/">>} /\ p = <<"/", "a">>) => ~ret.out.ok

\* neither the root key "/" nor the key "a" matches the path "/a"
C17_Witness ==
  /\ ret.fn = "findPath"
  /\ DOMAIN arg.r = {<<"/">>, <<"a">>}
  /\ arg.path = <<"/", "a">>
  /\ ~ret.out.ok
  /\ ret.tested = << <<"/", "a">>, <<>> >>

====
